---- MODULE Spec2Model ----
(***************************************************************************)
(* Model of the blacksmith DHCP responder (dhcp/server.go).                *)
(*                                                                         *)
(* A worker is one invocation of Handler.ServeDHCP on one decoded packet.  *)
(* The handler is cut into steps at every point where it touches state     *)
(* shared with other invocations: the registry (datasource), the global    *)
(* random source and the Handler struct.  Byte strings ([]byte, net.IP,    *)
(* string) are sequences of numbers 0..255; a dhcp4.Options map is a       *)
(* function whose DOMAIN is the set of option codes present.               *)
(***************************************************************************)
EXTENDS Integers, Sequences, FiniteSets, TLC

(***************************************************************************)
(* Bounds of the model.                                                    *)
(***************************************************************************)
\* packets delivered in one behaviour
MaxPackets == 2
\* the draws of the random source reach MaxOver past the modulus of rand.Intn
MaxOver == 1
\* the version strings of the build are up to MaxVersionLen bytes long
MaxVersionLen == 241
\* the registry lists up to MaxInstances service instances
MaxInstances == 3

(***************************************************************************)
(* Program constants.                                                      *)
(***************************************************************************)
minLeaseHours == 24
maxLeaseHours == 48
\* time.Hour, counted in seconds (time.Second == 1)
Hour == 3600

\* dhcp4.MessageType values
Discover == 1
Offer == 2
Request == 3
Decline == 4
ACK == 5
Release == 7
Inform == 8

\* dhcp4.OptionCode values
OptionSubnetMask == 1
OptionRouter == 3
OptionDomainNameServer == 6
OptionHostName == 12
OptionVendorSpecificInformation == 43
OptionRequestedIPAddress == 50
OptionServerIdentifier == 54
OptionParameterRequestList == 55
OptionVendorClassIdentifier == 60
OptionClientGUID == 97
OptionClasslessRouteFormat == 121

(***************************************************************************)
(* Byte strings.                                                           *)
(***************************************************************************)
Nil == << >>

IPv4zero == <<0, 0, 0, 0>>

v4InV6Prefix == <<0, 0, 0, 0, 0, 0, 0, 0, 0, 0, 255, 255>>

\* net.IP.To4: the 4-byte form of an IPv4 address, nil for anything else
To4(ip) ==
    IF Len(ip) = 4 THEN ip
    ELSE IF Len(ip) = 16 /\ SubSeq(ip, 1, 12) = v4InV6Prefix THEN SubSeq(ip, 13, 16)
    ELSE Nil

\* net.IP.Equal: equal byte strings, or the 4-byte and 16-byte forms of one
\* IPv4 address
IPEqual(a, b) ==
    IF Len(a) = Len(b) THEN a = b
    ELSE IF Len(a) = 4 /\ Len(b) = 16
         THEN SubSeq(b, 1, 12) = v4InV6Prefix /\ a = SubSeq(b, 13, 16)
    ELSE IF Len(a) = 16 /\ Len(b) = 4
         THEN SubSeq(a, 1, 12) = v4InV6Prefix /\ b = SubSeq(a, 13, 16)
    ELSE FALSE

HexDigits == <<48, 49, 50, 51, 52, 53, 54, 55, 56, 57, 97, 98, 99, 100, 101, 102>>

Colon == 58
Dot == 46

\* net.HardwareAddr.String: lowercase hex pairs separated by colons
RECURSIVE HardwareAddrString(_)
HardwareAddrString(mac) ==
    IF mac = << >> THEN << >>
    ELSE LET b == Head(mac)
             pair == <<HexDigits[(b \div 16) + 1], HexDigits[(b % 16) + 1]>>
         IN IF Len(mac) = 1 THEN pair
            ELSE pair \o <<Colon>> \o HardwareAddrString(Tail(mac))

\* strings.Join(strings.Split(s, ":"), "")
RECURSIVE JoinSplitColon(_)
JoinSplitColon(s) ==
    IF s = << >> THEN << >>
    ELSE IF Head(s) = Colon THEN JoinSplitColon(Tail(s))
    ELSE <<Head(s)>> \o JoinSplitColon(Tail(s))

\* "PXEClient"
PXEClient == <<80, 88, 69, 67, 108, 105, 101, 110, 116>>

(***************************************************************************)
(* Deployment the model runs in.                                           *)
(***************************************************************************)
ServerIP == <<10, 0, 0, 1>>
OtherServerIP == <<10, 0, 0, 2>>
\* the same address in its 16-byte form
ServerIP16 == v4InV6Prefix \o ServerIP

MacA == <<170, 187, 204, 221, 238, 255>>
MacB == <<0, 17, 34, 51, 68, 85>>
Macs == {MacA, MacB}

IpA == <<10, 0, 1, 10>>
IpB == <<10, 0, 1, 11>>
\* addresses the registry hands out
Pool == {IpA, IpB}

\* "mycluster"
ClusterNameValue == <<109, 121, 99, 108, 117, 115, 116, 101, 114>>

\* "v1.0"
VersionValue == <<118, 49, 46, 48>>

\* fmt.Sprintf("Blacksmith (%s)", version)
BootMessageOf(version) ==
    <<66, 108, 97, 99, 107, 115, 109, 105, 116, 104, 32, 40>> \o version \o <<41>>

Workers == {1, 2}
\* index of the Handler struct's own dhcpOptions field in the options store
HandlerField == 0

(***************************************************************************)
(* Registry values (datasource package).                                   *)
(***************************************************************************)
Netmask24 == <<255, 255, 255, 0>>
RouterIP == <<10, 0, 1, 1>>

\* classless route 10.0.0.0/8 via 10.0.0.1 and 192.168.1.0/24 via 10.0.1.1
RouteA == [prefix |-> 8, dest |-> <<10, 0, 0, 0>>, gateway |-> <<10, 0, 0, 1>>]
RouteB == [prefix |-> 24, dest |-> <<192, 168, 1, 0>>, gateway |-> RouterIP]

\* the networkConfiguration struct: Router is Nil when not configured
ConfPlain == [Netmask |-> Netmask24, Router |-> Nil, ClasslessRouteOption |-> << >>]
ConfRouter == [Netmask |-> Netmask24, Router |-> RouterIP,
               ClasslessRouteOption |-> << >>]
ConfRoutes == [Netmask |-> Netmask24, Router |-> Nil,
               ClasslessRouteOption |-> <<RouteB, RouteA>>]

\* what the registry holds under SpecialKeyNetworkConfiguration: nothing, a
\* string json.Unmarshal rejects, or the serialisation of a configuration
NetConfMissing == [present |-> FALSE, valid |-> FALSE, conf |-> ConfPlain]
NetConfMalformed == [present |-> TRUE, valid |-> FALSE, conf |-> ConfPlain]
NetConfOf(c) == [present |-> TRUE, valid |-> TRUE, conf |-> c]

NetConfValues ==
    {NetConfMissing, NetConfMalformed}
        \cup {NetConfOf(c) : c \in {ConfPlain, ConfRouter, ConfRoutes}}

\* the addresses of the service instances, in registry order
InstanceLists == {<<ServerIP16, OtherServerIP>>}

\* classlessRouteOptionPart.toBytes: prefix length, the significant
\* destination octets, the gateway
toBytes(part) ==
    <<part.prefix>> \o SubSeq(part.dest, 1, (part.prefix + 7) \div 8) \o part.gateway

(***************************************************************************)
(* Pure functions of dhcp/server.go.                                       *)
(***************************************************************************)
\* rand.Intn(n) for a raw draw v of the random source
Intn(n, v) == v % n

\* raw draws: the least, and those around the modulus of randLeaseDuration
RandDraws ==
    {0} \cup {maxLeaseHours - minLeaseHours - 1 + k : k \in 0..MaxOver}

randLeaseDurationWide(v) == (minLeaseHours + Intn(maxLeaseHours - minLeaseHours + 1, v)) * Hour

randLeaseDuration(v) == (minLeaseHours + Intn(maxLeaseHours - minLeaseHours, v)) * Hour

\* lines 68-76 without the To4 of line 72
RECURSIVE dnsAddressesRaw(_)
dnsAddressesRaw(instances) ==
    IF instances = << >> THEN << >>
    ELSE Head(instances) \o dnsAddressesRaw(Tail(instances))

\* lines 68-76: the To4 form of each instance address, appended in order
RECURSIVE dnsAddressesForDHCP(_)
dnsAddressesForDHCP(instances) ==
    IF instances = << >> THEN << >>
    ELSE To4(Head(instances)) \o dnsAddressesForDHCP(Tail(instances))

\* byte(n)
Byte(n) == n % 256

\* lines 78-98 with the length of line 92 written at line 87 too
fillPXEPromptLength(serverIP, bootMessage) ==
    <<6, 1, 3>>
        \o <<8, 7, 128, 0, 1>> \o To4(serverIP)
        \o <<9, Byte(1 + Len(bootMessage)), 128, 0, 9>> \o bootMessage
        \o <<10, Byte(1 + Len(bootMessage)), 2>> \o bootMessage
        \o <<255>>

\* lines 78-98
fillPXE(serverIP, bootMessage) ==
    <<6, 1, 3>>
        \o <<8, 7, 128, 0, 1>> \o To4(serverIP)
        \o <<9, Byte(3 + Len(bootMessage)), 128, 0, 9>> \o bootMessage
        \o <<10, Byte(1 + Len(bootMessage)), 2>> \o bootMessage
        \o <<255>>

\* lines 139-140 with the colons of the hardware address kept
HostnameColons(chaddr, clusterName) ==
    HardwareAddrString(chaddr) \o <<Dot>> \o clusterName

\* lines 139-140
Hostname(chaddr, clusterName) ==
    JoinSplitColon(HardwareAddrString(chaddr)) \o <<Dot>> \o clusterName

RECURSIVE RoutesBytes(_)
RoutesBytes(parts) ==
    IF parts = << >> THEN << >>
    ELSE toBytes(Head(parts)) \o RoutesBytes(Tail(parts))

\* lines 142-158 with the router written whether configured or not
AssembleOptionsRouter(netConf, instanceInfos, hostname) ==
    LET base == (OptionSubnetMask :> To4(netConf.Netmask))
                    @@ (OptionDomainNameServer :> dnsAddressesForDHCP(instanceInfos))
                    @@ (OptionHostName :> hostname)
                    @@ (OptionRouter :> To4(netConf.Router))
    IN IF Len(netConf.ClasslessRouteOption) # 0
       THEN base @@ (OptionClasslessRouteFormat :> RoutesBytes(netConf.ClasslessRouteOption))
       ELSE base

\* lines 142-158: the assembled option map
AssembleOptions(netConf, instanceInfos, hostname) ==
    LET base == (OptionSubnetMask :> To4(netConf.Netmask))
                    @@ (OptionDomainNameServer :> dnsAddressesForDHCP(instanceInfos))
                    @@ (OptionHostName :> hostname)
        withRouter == IF netConf.Router # Nil
                      THEN base @@ (OptionRouter :> To4(netConf.Router))
                      ELSE base
    IN IF Len(netConf.ClasslessRouteOption) # 0
       THEN withRouter
                @@ (OptionClasslessRouteFormat :> RoutesBytes(netConf.ClasslessRouteOption))
       ELSE withRouter

(***************************************************************************)
(* dhcp4 library functions the handler calls.                              *)
(***************************************************************************)
Option(code, value) == [Code |-> code, Value |-> value]

\* Options.SelectOrder: the requested codes that the map holds, in the
\* order requested
RECURSIVE SelectOrder(_, _)
SelectOrder(o, order) ==
    IF order = << >> THEN << >>
    ELSE LET v == Head(order)
         IN (IF v \in DOMAIN o THEN <<Option(v, o[v])>> ELSE << >>)
                \o SelectOrder(o, Tail(order))

\* every order a Go map iteration can visit the keys in
Orders(S) ==
    {f \in [1..Cardinality(S) -> S] : \A i, j \in 1..Cardinality(S) : f[i] = f[j] => i = j}

\* Options.SelectOrderOrAll applied to options[code]: the set of slices it
\* can return.  The parser never stores a nil value, so the argument is nil
\* exactly when the option is absent.
SelectOrderOrAll(o, options, code) ==
    IF code \notin DOMAIN options
    THEN {[i \in 1..Cardinality(DOMAIN o) |-> Option(f[i], o[f[i]])] : f \in Orders(DOMAIN o)}
    ELSE {SelectOrder(o, options[code])}

\* dhcp4.ReplyPacket: message type, server identifier, yiaddr, chaddr, lease
\* time in seconds and the options handed in
ReplyPacket(p, mt, serverId, yIAddr, leaseDuration, options) ==
    [mt |-> mt, serverId |-> serverId, yiaddr |-> To4(yIAddr), chaddr |-> p.chaddr,
     lease |-> leaseDuration, options |-> options]

NoReply == [mt |-> 0, serverId |-> Nil, yiaddr |-> Nil, chaddr |-> Nil,
            lease |-> 0, options |-> << >>]

(***************************************************************************)
(* Packets the socket layer delivers.                                      *)
(***************************************************************************)
NoOptions == << >>

\* the option absent, or present with one of the values
OptionChoices(code, values) == {NoOptions} \cup {code :> v : v \in values}

MsgTypes == {Discover, Request, Decline, Release, Inform}

GuidValue == <<0, 171, 205>>

\* client-IP field and Requested-IP option: neither, either, both, and a
\* zero and an empty requested address
AddressFields ==
    {<<ci, NoOptions>> : ci \in {IPv4zero, IpA}}
        \cup {<<IPv4zero, OptionRequestedIPAddress :> v>> : v \in {IpA, IpB, IPv4zero, << >>}}
        \cup {<<IpA, OptionRequestedIPAddress :> IpB>>}

Packets ==
    {[msgType |-> mt, chaddr |-> mac, ciaddr |-> af[1],
      options |-> sid @@ af[2] @@ prl @@ guid] :
        mt \in MsgTypes, mac \in Macs, af \in AddressFields,
        sid \in OptionChoices(OptionServerIdentifier, {ServerIP, OtherServerIP}),
        prl \in OptionChoices(OptionParameterRequestList,
                              {<<OptionRouter, OptionSubnetMask, 99, OptionSubnetMask>>, << >>}),
        guid \in OptionChoices(OptionClientGUID, {GuidValue, << >>})}

\* the packets of the runs with two handler invocations in flight
ConcPackets ==
    {[msgType |-> mt, chaddr |-> mac, ciaddr |-> IPv4zero,
      options |-> (OptionRequestedIPAddress :> req)
                    @@ (OptionParameterRequestList :> <<OptionHostName, OptionSubnetMask>>)
                    @@ (OptionClientGUID :> GuidValue)] :
        mt \in {Discover, Request}, mac \in Macs, req \in {IpA, IpB}}

NoPacket == [msgType |-> 0, chaddr |-> Nil, ciaddr |-> IPv4zero, options |-> NoOptions]

(***************************************************************************)
(* State.                                                                  *)
(***************************************************************************)
VARIABLES
    h,              \* the Handler: ifName, serverIP, bootMessage
    dhcpOptions,    \* option maps: [HandlerField] is h.dhcpOptions, [i] the local of worker i
    regMachines,    \* registry: hardware address -> assigned address, Nil if none
    regLastSeen,    \* registry: hardware address -> stamp of the last check-in, 0 if none
    regNetConf,     \* registry: the network-configuration variable
    regInstances,   \* registry: the service instances
    handled,        \* packets delivered so far
    pc,             \* per worker: position in ServeDHCP
    pkt,            \* per worker: the packet being served
    local,          \* per worker: machine, netConf, instanceInfos, hostname, replyOptions
    calls,          \* per worker: the registry operations this invocation has made
    result,         \* per worker: "pending", "none", "reply" or "panic"
    reply,          \* per worker: the packet returned
    start,          \* StartDHCP: its position, and the calls of rand.Seed so far
    probe           \* a pure function under test: its name, argument and result

vars == <<h, dhcpOptions, regMachines, regLastSeen, regNetConf, regInstances,
          handled, pc, pkt, local, calls, result, reply, start, probe>>

registry == <<regMachines, regLastSeen, regNetConf, regInstances>>

\* seeded: whether rand.Seed had been called when the lease was drawn
LocalInit == [machine |-> Nil, netConfOK |-> FALSE, netConf |-> ConfPlain,
              instancesOK |-> FALSE, hostname |-> Nil, replyOptions |-> << >>,
              seeded |-> FALSE]

\* no pure function under test
NoProbe == [fn |-> "none", arg |-> << >>, out |-> << >>, applied |-> FALSE]

Call(op, mac) == [op |-> op, mac |-> mac]

\* lines 32-37: the Handler StartDHCP builds; dhcpOptions is left nil
NewHandler(ifName, serverIP, version) ==
    [ifName |-> ifName, serverIP |-> serverIP, bootMessage |-> BootMessageOf(version)]

\* lines 32-45: StartDHCP has built the handler and sits in ListenAndServe
InitCommon ==
    /\ h = NewHandler("eth0", ServerIP, VersionValue)
    /\ start = [pc |-> "listen", seeds |-> 0]
    /\ probe = NoProbe
    /\ dhcpOptions = [c \in {HandlerField} \cup Workers |-> NoOptions]
    /\ regMachines \in {[m \in Macs |-> Nil], [m \in Macs |-> IF m = MacA THEN IpA ELSE Nil]}
    /\ regLastSeen = [m \in Macs |-> 0]
    /\ regNetConf \in NetConfValues
    /\ regInstances \in InstanceLists
    /\ handled = 0
    /\ pkt = [i \in Workers |-> NoPacket]
    /\ local = [i \in Workers |-> LocalInit]
    /\ calls = [i \in Workers |-> << >>]
    /\ result = [i \in Workers |-> "pending"]
    /\ reply = [i \in Workers |-> NoReply]

\* the dhcp4 serving loop: one invocation at a time
Init ==
    /\ InitCommon
    /\ pc = [i \in Workers |-> IF i = 1 THEN "idle" ELSE "off"]

\* two invocations may be in flight
InitConc ==
    /\ InitCommon
    /\ pc = [i \in Workers |-> "idle"]

Arrivals == IF \E i \in Workers : pc[i] = "off" THEN Packets ELSE ConcPackets

\* a Go panic ends the process
Running == \A i \in Workers : pc[i] # "panic"

(***************************************************************************)
(* Decisions of ServeDHCP.                                                 *)
(***************************************************************************)
\* line 104: the message types of the first case
HandlesToo(msgType) == msgType \in {Discover, Request, Release, Decline}

Handles(msgType) == msgType \in {Discover, Request}

\* line 105: no server identifier, or this server's
IsOursAlways(options, serverIP) == TRUE

IsOurs(options, serverIP) ==
    ~(OptionServerIdentifier \in DOMAIN options
        /\ ~IPEqual(options[OptionServerIdentifier], serverIP))

\* lines 120-131 with the errors of GetVariable and json.Unmarshal ignored
NetConfUsableAlways(v) == TRUE

\* lines 120-131: the variable is there and json.Unmarshal accepts it
NetConfUsable(v) == v.present /\ v.valid

\* lines 160-162
ResponseMsgType(msgType) == IF msgType = Request THEN ACK ELSE Offer

\* lines 164-167: option 50, else the client-IP field
RequestedIP(p) ==
    IF OptionRequestedIPAddress \in DOMAIN p.options
    THEN p.options[OptionRequestedIPAddress]
    ELSE p.ciaddr

\* lines 168-177 without the comparison with the assignment
ValidRequestAny(requestedIP, machineIP) ==
    ~(Len(requestedIP) # 4 \/ IPEqual(requestedIP, IPv4zero))

\* lines 168-177: a non-zero 4-byte address equal to the assignment
ValidRequest(requestedIP, machineIP) ==
    /\ ~(Len(requestedIP) # 4 \/ IPEqual(requestedIP, IPv4zero))
    /\ IPEqual(requestedIP, machineIP)

\* lines 161, 179: the messages that record a check-in
ChecksInAll(msgType) == TRUE

ChecksIn(msgType) == msgType = Request

\* where worker i keeps its assembled options: a variable of its own
CellShared(i) == HandlerField

Cell(i) == i

\* line 187 with the request list ignored
ReplyOptionsAll(assembled, options) ==
    SelectOrderOrAll(assembled, NoOptions, OptionParameterRequestList)

\* line 187
ReplyOptions(assembled, options) ==
    SelectOrderOrAll(assembled, options, OptionParameterRequestList)

\* line 190: guidVal[1:] panics on an empty slice
GuidPanics(guidVal) == Len(guidVal) = 0

\* lines 190-204 with the whole option 97 value echoed
PXEOptionsWhole(guidVal, serverIP, bootMessage) ==
    <<Option(OptionVendorClassIdentifier, PXEClient),
      Option(OptionClientGUID, guidVal),
      Option(OptionVendorSpecificInformation, fillPXE(serverIP, bootMessage))>>

\* lines 190-204: the three options appended for a PXE client
PXEOptions(guidVal, serverIP, bootMessage) ==
    <<Option(OptionVendorClassIdentifier, PXEClient),
      Option(OptionClientGUID, SubSeq(guidVal, 2, Len(guidVal))),
      Option(OptionVendorSpecificInformation, fillPXE(serverIP, bootMessage))>>

\* lines 206-207 with the requested address as yiaddr
BuildReplyRequested(p, msgType, serverIP, machineIP, lease, replyOptions) ==
    ReplyPacket(p, ResponseMsgType(msgType), serverIP, RequestedIP(p), lease, replyOptions)

\* lines 206-207
BuildReply(p, msgType, serverIP, machineIP, lease, replyOptions) ==
    ReplyPacket(p, ResponseMsgType(msgType), serverIP, machineIP, lease, replyOptions)

(***************************************************************************)
(* Steps of one invocation.                                                *)
(***************************************************************************)
\* return from ServeDHCP
Return(i, outcome, packet) ==
    /\ pc' = [pc EXCEPT ![i] = IF outcome = "panic" THEN "panic" ELSE "done"]
    /\ result' = [result EXCEPT ![i] = outcome]
    /\ reply' = [reply EXCEPT ![i] = packet]

Goto(i, label) ==
    /\ pc' = [pc EXCEPT ![i] = label]
    /\ UNCHANGED <<result, reply>>

\* lines 101-110 and 210-213: a packet is delivered and dispatched on its type
Serve(i) ==
    /\ Running
    /\ pc[i] = "idle"
    /\ start.pc = "listen"
    /\ handled < MaxPackets
    /\ \E p \in Arrivals :
        /\ pkt' = [pkt EXCEPT ![i] = p]
        /\ IF Handles(p.msgType) /\ IsOurs(p.options, h.serverIP)
           THEN /\ pc' = [pc EXCEPT ![i] = "machine"]
                /\ result' = [result EXCEPT ![i] = "pending"]
           ELSE /\ pc' = [pc EXCEPT ![i] = "done"]
                /\ result' = [result EXCEPT ![i] = "none"]
    /\ handled' = handled + 1
    /\ UNCHANGED <<h, dhcpOptions, registry, local, calls, reply, start, probe>>

\* lines 112-118: the machine of the hardware address, created if needed,
\* or an error
LookupMachine(i) ==
    /\ Running
    /\ pc[i] = "machine"
    /\ LET mac == pkt[i].chaddr
           free == Pool \ {regMachines[m] : m \in Macs}
       IN /\ calls' = [calls EXCEPT ![i] = Append(@, Call("Machine", mac))]
          /\ \/ /\ Return(i, "none", NoReply)
                /\ UNCHANGED <<regMachines, local>>
             \/ /\ regMachines[mac] # Nil
                /\ local' = [local EXCEPT ![i].machine = regMachines[mac]]
                /\ Goto(i, "netconf")
                /\ UNCHANGED regMachines
             \/ /\ regMachines[mac] = Nil
                /\ \E ip \in free :
                    /\ regMachines' = [regMachines EXCEPT ![mac] = ip]
                    /\ local' = [local EXCEPT ![i].machine = ip]
                /\ Goto(i, "netconf")
    /\ UNCHANGED <<h, dhcpOptions, regLastSeen, regNetConf, regInstances, handled, pkt, start, probe>>

\* lines 120-131: fetch and parse the network configuration
GetNetConf(i) ==
    /\ Running
    /\ pc[i] = "netconf"
    /\ calls' = [calls EXCEPT ![i] = Append(@, Call("GetVariable", pkt[i].chaddr))]
    /\ IF NetConfUsable(regNetConf)
       THEN /\ local' = [local EXCEPT ![i].netConfOK = TRUE, ![i].netConf = regNetConf.conf]
            /\ Goto(i, "instances")
       ELSE /\ Return(i, "none", NoReply)
            /\ UNCHANGED local
    /\ UNCHANGED <<h, dhcpOptions, registry, handled, pkt, start, probe>>

\* lines 133-177: fetch the instances, build the hostname and the option map,
\* and for a REQUEST validate the requested address
GetInstances(i) ==
    /\ Running
    /\ pc[i] = "instances"
    /\ calls' = [calls EXCEPT ![i] = Append(@, Call("Instances", pkt[i].chaddr))]
    /\ \/ /\ Return(i, "none", NoReply)
          /\ UNCHANGED <<local, dhcpOptions>>
       \/ LET hostname == Hostname(pkt[i].chaddr, ClusterNameValue)
              assembled == AssembleOptions(local[i].netConf, regInstances, hostname)
          IN /\ local' = [local EXCEPT ![i].instancesOK = TRUE, ![i].hostname = hostname]
             /\ dhcpOptions' = [dhcpOptions EXCEPT ![Cell(i)] = assembled]
             /\ IF pkt[i].msgType = Request
                    /\ ~ValidRequest(RequestedIP(pkt[i]), local[i].machine)
                THEN Return(i, "none", NoReply)
                ELSE IF ChecksIn(pkt[i].msgType)
                     THEN Goto(i, "checkin")
                     ELSE Goto(i, "reply")
    /\ UNCHANGED <<h, registry, handled, pkt, start, probe>>

\* line 179
CheckIn(i) ==
    /\ Running
    /\ pc[i] = "checkin"
    /\ calls' = [calls EXCEPT ![i] = Append(@, Call("CheckIn", pkt[i].chaddr))]
    /\ regLastSeen' = [regLastSeen EXCEPT ![pkt[i].chaddr] = handled]
    /\ Goto(i, "reply")
    /\ UNCHANGED <<h, dhcpOptions, regMachines, regNetConf, regInstances, handled, pkt, local, start, probe>>

\* lines 182-208: select the options, append the PXE options, draw the lease
\* and build the reply
Reply(i) ==
    /\ Running
    /\ pc[i] = "reply"
    /\ LET options == pkt[i].options
           isPxe == OptionClientGUID \in DOMAIN options
       IN \E selected \in ReplyOptions(dhcpOptions[Cell(i)], options) :
            IF isPxe /\ GuidPanics(options[OptionClientGUID])
            THEN /\ Return(i, "panic", NoReply)
                 /\ UNCHANGED local
            ELSE \E v \in RandDraws :
                   LET replyOptions ==
                           IF isPxe
                           THEN selected \o PXEOptions(options[OptionClientGUID],
                                                       h.serverIP, h.bootMessage)
                           ELSE selected
                   IN /\ local' = [local EXCEPT ![i].replyOptions = selected,
                                                ![i].seeded = start.seeds > 0]
                      /\ Return(i, "reply",
                                BuildReply(pkt[i], pkt[i].msgType, h.serverIP,
                                           local[i].machine, randLeaseDuration(v),
                                           replyOptions))
    /\ UNCHANGED <<h, dhcpOptions, registry, handled, pkt, calls, start, probe>>

\* the serving loop takes the returned packet, if any, and waits for the
\* next one; the locals of the invocation are gone
Loop(i) ==
    /\ Running
    /\ pc[i] = "done"
    /\ pc' = [pc EXCEPT ![i] = "idle"]
    /\ pkt' = [pkt EXCEPT ![i] = NoPacket]
    /\ local' = [local EXCEPT ![i] = LocalInit]
    /\ calls' = [calls EXCEPT ![i] = << >>]
    /\ result' = [result EXCEPT ![i] = "pending"]
    /\ reply' = [reply EXCEPT ![i] = NoReply]
    /\ dhcpOptions' = [dhcpOptions EXCEPT ![Cell(i)] = NoOptions]
    /\ UNCHANGED <<h, registry, handled, start, probe>>

\* lines 42-45: ListenAndServe returns with the error of the socket, between
\* two invocations
ListenReturns ==
    /\ Running
    /\ start.pc = "listen"
    /\ \A i \in Workers : pc[i] \in {"idle", "off"}
    /\ start' = [start EXCEPT !.pc = "seed"]
    /\ UNCHANGED <<h, dhcpOptions, registry, handled, pc, pkt, local, calls, result,
                   reply, probe>>

\* lines 47-54: the cluster-name warning, rand.Seed, return
Seed ==
    /\ Running
    /\ start.pc = "seed"
    /\ start' = [pc |-> "returned", seeds |-> start.seeds + 1]
    /\ UNCHANGED <<h, dhcpOptions, registry, handled, pc, pkt, local, calls, result,
                   reply, probe>>

Next ==
    \/ ListenReturns
    \/ Seed
    \/ \E i \in Workers :
        \/ Loop(i)
        \/ Serve(i)
        \/ LookupMachine(i)
        \/ GetNetConf(i)
        \/ GetInstances(i)
        \/ CheckIn(i)
        \/ Reply(i)

Spec == Init /\ [][Next]_vars

SpecConc == InitConc /\ [][Next]_vars

(***************************************************************************)
(* The pure functions on their own: Init draws the inputs, one step        *)
(* applies the function.                                                   *)
(***************************************************************************)
\* the version strings a build can carry: "v1.0", and strings of each length
Versions == {VersionValue} \cup {[k \in 1..n |-> 120] : n \in 0..MaxVersionLen}

\* the addresses of service instances: IPv4, in the 4-byte or 16-byte form
InstanceAddrs == {ServerIP, ServerIP16, OtherServerIP}

InstanceListsUpTo(n) == UNION {[1..k -> InstanceAddrs] : k \in 0..n}

Probe(fn, arg) == [fn |-> fn, arg |-> arg, out |-> << >>, applied |-> FALSE]

\* lines 32-37 for each version and either form of the server address, or a
\* list of instances as Instances() returns it
InitFn ==
    /\ \/ /\ \E sip \in {ServerIP, ServerIP16}, version \in Versions :
                h = NewHandler("eth0", sip, version)
          /\ probe = Probe("fillPXE", << >>)
       \/ /\ h = NewHandler("eth0", ServerIP, VersionValue)
          /\ probe \in {Probe("dnsAddressesForDHCP", l) : l \in InstanceListsUpTo(MaxInstances)}
    /\ start = [pc |-> "listen", seeds |-> 0]
    /\ dhcpOptions = [c \in {HandlerField} \cup Workers |-> NoOptions]
    /\ regMachines = [m \in Macs |-> Nil]
    /\ regLastSeen = [m \in Macs |-> 0]
    /\ regNetConf = NetConfMissing
    /\ regInstances = << >>
    /\ handled = 0
    /\ pc = [i \in Workers |-> "off"]
    /\ pkt = [i \in Workers |-> NoPacket]
    /\ local = [i \in Workers |-> LocalInit]
    /\ calls = [i \in Workers |-> << >>]
    /\ result = [i \in Workers |-> "pending"]
    /\ reply = [i \in Workers |-> NoReply]

\* line 201: h.fillPXE()
CallFillPXE ==
    /\ probe.fn = "fillPXE"
    /\ ~probe.applied
    /\ probe' = [probe EXCEPT !.out = fillPXE(h.serverIP, h.bootMessage),
                              !.applied = TRUE]
    /\ UNCHANGED <<h, dhcpOptions, registry, handled, pc, pkt, local, calls, result,
                   reply, start>>

\* line 144: dnsAddressesForDHCP(&instanceInfos)
CallDnsAddressesForDHCP ==
    /\ probe.fn = "dnsAddressesForDHCP"
    /\ ~probe.applied
    /\ probe' = [probe EXCEPT !.out = dnsAddressesForDHCP(probe.arg),
                              !.applied = TRUE]
    /\ UNCHANGED <<h, dhcpOptions, registry, handled, pc, pkt, local, calls, result,
                   reply, start>>

NextFn == CallFillPXE \/ CallDnsAddressesForDHCP

SpecFn == InitFn /\ [][NextFn]_vars

(***************************************************************************)
(* Vocabulary of the properties.                                           *)
(***************************************************************************)
Finished(i) == pc[i] \in {"done", "panic"}

IsRequestLike(i) == pkt[i].msgType \in {Discover, Request}

\* the server-identifier option is absent or carries the server's address
SidAbsentOrMatches(p) ==
    \/ OptionServerIdentifier \notin DOMAIN p.options
    \/ p.options[OptionServerIdentifier] = ServerIP

\* the registry's current assignment for the packet's hardware address
Assigned(i) == regMachines[pkt[i].chaddr]

\* option 50 when present, else the client-IP field
RequestedAddress(p) ==
    IF OptionRequestedIPAddress \in DOMAIN p.options
    THEN p.options[OptionRequestedIPAddress]
    ELSE p.ciaddr

LookupsSucceeded(i) ==
    /\ local[i].machine # Nil
    /\ local[i].netConfOK
    /\ local[i].instancesOK

CheckIns(i) == Len(SelectSeq(calls[i], LAMBDA c : c.op = "CheckIn"))

Codes(opts) == [k \in 1..Len(opts) |-> opts[k].Code]

\* the three PXE options stripped from the options of a reply
SelectedOf(i) ==
    IF OptionClientGUID \in DOMAIN pkt[i].options
    THEN SubSeq(reply[i].options, 1, Len(reply[i].options) - 3)
    ELSE reply[i].options

C2_MismatchDropped ==
    \A i \in Workers :
        (/\ Finished(i)
         /\ pkt[i].msgType = Request
         /\ RequestedAddress(pkt[i]) # Assigned(i))
            => /\ result[i] = "none"
               /\ reply[i] = NoReply

\* a REQUEST for another machine's address got as far as the comparison
C2_Witness ==
    \E i \in Workers :
        /\ pc[i] = "done"
        /\ pkt[i].msgType = Request
        /\ LookupsSucceeded(i)
        /\ RequestedAddress(pkt[i]) = IpB
        /\ Assigned(i) = IpA
        /\ result[i] = "none"

(***************************************************************************)
(* C3.  A REQUEST whose server identifier is absent or matches, whose      *)
(* lookups all succeed and whose requested address is the non-zero 4-byte  *)
(* assignment is answered with an ACK carrying the server's address and    *)
(* the assignment; a replied DISCOVER is an OFFER, a replied REQUEST an    *)
(* ACK.                                                                    *)
(***************************************************************************)
C3_AckReturned ==
    \A i \in Workers :
        /\ (/\ Finished(i)
            /\ pkt[i].msgType = Request
            /\ SidAbsentOrMatches(pkt[i])
            /\ LookupsSucceeded(i)
            /\ Len(RequestedAddress(pkt[i])) = 4
            /\ RequestedAddress(pkt[i]) # IPv4zero
            /\ RequestedAddress(pkt[i]) = Assigned(i))
               => /\ result[i] = "reply"
                  /\ reply[i].mt = ACK
                  /\ reply[i].serverId = ServerIP
                  /\ reply[i].yiaddr = Assigned(i)
        /\ result[i] = "reply"
               => /\ pkt[i].msgType = Discover => reply[i].mt = Offer
                  /\ pkt[i].msgType = Request => reply[i].mt = ACK

(***************************************************************************)
(* C4.  RELEASE and DECLINE produce no reply, make no registry call and    *)
(* leave the registry as it was.                                           *)
(***************************************************************************)
IsReleaseOrDecline(p) == p.msgType \in {Release, Decline}

C4_NoReplyNoCall ==
    \A i \in Workers :
        IsReleaseOrDecline(pkt[i])
            => /\ pc[i] = "done"
               /\ result[i] = "none"
               /\ reply[i] = NoReply
               /\ calls[i] = << >>

\* C4: always so, and no step of a RELEASE or DECLINE invocation changes the
\* registry
C4_ReleaseDeclineInert ==
    /\ []C4_NoReplyNoCall
    /\ [][(\E i \in Workers : IsReleaseOrDecline(pkt[i]) \/ IsReleaseOrDecline(pkt'[i]))
            => registry' = registry]_vars

\* a RELEASE from a machine that holds an assignment and has checked in
C4_Witness ==
    \E i \in Workers :
        /\ pc[i] = "done"
        /\ pkt[i].msgType = Release
        /\ OptionClientGUID \in DOMAIN pkt[i].options
        /\ Assigned(i) # Nil
        /\ regLastSeen[pkt[i].chaddr] # 0

(***************************************************************************)
(* C5.  The lease of every reply is a whole number of hours h with         *)
(* minLeaseHours <= h < maxLeaseHours, whatever the random source returns. *)
(***************************************************************************)
C5_LeaseInRange ==
    \A i \in Workers :
        result[i] = "reply"
            => /\ reply[i].lease % 3600 = 0
               /\ 24 <= reply[i].lease \div 3600
               /\ reply[i].lease \div 3600 < 48

\* the longest lease: 47 hours
C5_Witness ==
    \E i \in Workers :
        /\ result[i] = "reply"
        /\ reply[i].mt = ACK
        /\ reply[i].lease = 47 * 3600

(***************************************************************************)
(* C6.  A DISCOVER or REQUEST whose server identifier is present and is    *)
(* not the server's address gets no reply, and no registry operation is    *)
(* made for it.                                                            *)
(***************************************************************************)
C6_ForeignDropped ==
    \A i \in Workers :
        (/\ IsRequestLike(i)
         /\ OptionServerIdentifier \in DOMAIN pkt[i].options
         /\ pkt[i].options[OptionServerIdentifier] # ServerIP)
            => /\ pc[i] = "done"
               /\ result[i] = "none"
               /\ reply[i] = NoReply
               /\ calls[i] = << >>

\* a REQUEST for another server that this server would otherwise acknowledge
C6_Witness ==
    \E i \in Workers :
        /\ pc[i] = "done"
        /\ pkt[i].msgType = Request
        /\ OptionServerIdentifier \in DOMAIN pkt[i].options
        /\ pkt[i].options[OptionServerIdentifier] = OtherServerIP
        /\ Assigned(i) = IpA
        /\ RequestedAddress(pkt[i]) = IpA
        /\ regNetConf.valid

(***************************************************************************)
(* C7.  Invocations in flight together for distinct hardware addresses do  *)
(* not interfere: the yiaddr, the hostname and the registry calls of each  *)
(* are those of its own packet, a check-in stamps only the hardware        *)
(* address of the invocation making it, and the Handler's fields           *)
(* (serverIP, ifName, bootMessage, dhcpOptions) are never written.         *)
(***************************************************************************)
\* "aabbccddeeff.mycluster" and "001122334455.mycluster"
HostnameOf(mac) ==
    IF mac = MacA
    THEN <<97, 97, 98, 98, 99, 99, 100, 100, 101, 101, 102, 102, 46,
           109, 121, 99, 108, 117, 115, 116, 101, 114>>
    ELSE <<48, 48, 49, 49, 50, 50, 51, 51, 52, 52, 53, 53, 46,
           109, 121, 99, 108, 117, 115, 116, 101, 114>>

Alone(i) == \A j \in Workers \ {i} : pkt[j].chaddr # pkt[i].chaddr

C7_OwnReply ==
    \A i \in Workers :
        Alone(i)
            => /\ \A k \in 1..Len(calls[i]) : calls[i][k].mac = pkt[i].chaddr
               /\ result[i] = "reply"
                    => /\ reply[i].yiaddr = Assigned(i)
                       /\ reply[i].chaddr = pkt[i].chaddr
                       /\ \A k \in 1..Len(reply[i].options) :
                            reply[i].options[k].Code = OptionHostName
                                => reply[i].options[k].Value = HostnameOf(pkt[i].chaddr)

\* C7: always so, and no step writes a Handler field or stamps the check-in
\* of a hardware address other than the stepping invocation's
C7_NoInterference ==
    /\ []C7_OwnReply
    /\ [][/\ h' = h
          /\ dhcpOptions'[HandlerField] = dhcpOptions[HandlerField]
          /\ \A m \in Macs :
                regLastSeen'[m] # regLastSeen[m]
                    => \E i \in Workers : pc[i] = "checkin" /\ pkt[i].chaddr = m]_vars

\* two invocations for different machines, one acknowledged and one offered,
\* both complete at once
C7_Witness ==
    /\ result[1] = "reply"
    /\ result[2] = "reply"
    /\ pkt[1].chaddr # pkt[2].chaddr
    /\ reply[1].mt = ACK
    /\ reply[2].mt = Offer
    /\ reply[1].yiaddr # reply[2].yiaddr

(***************************************************************************)
(* C8.  An invocation records at most one check-in, and records one        *)
(* exactly when the message is a REQUEST that passed the server-identifier *)
(* check, every lookup and the address check; a DISCOVER and a dropped     *)
(* REQUEST record none.                                                    *)
(***************************************************************************)
C8_CheckInExactly ==
    \A i \in Workers :
        /\ CheckIns(i) <= 1
        /\ Finished(i)
            => /\ CheckIns(i) = 1
                    <=> /\ pkt[i].msgType = Request
                        /\ SidAbsentOrMatches(pkt[i])
                        /\ LookupsSucceeded(i)
                        /\ Len(RequestedAddress(pkt[i])) = 4
                        /\ RequestedAddress(pkt[i]) # IPv4zero
                        /\ RequestedAddress(pkt[i]) = Assigned(i)
               /\ CheckIns(i) = 1 => regLastSeen[pkt[i].chaddr] = handled
               /\ pkt[i].msgType = Discover => CheckIns(i) = 0
               /\ (pkt[i].msgType = Request /\ result[i] = "none") => CheckIns(i) = 0

\* an acknowledged REQUEST without option 50 whose check-in is the last of
\* that invocation's four registry calls
C8_Witness ==
    \E i \in Workers :
        /\ pc[i] = "done"
        /\ pkt[i].msgType = Request
        /\ OptionRequestedIPAddress \notin DOMAIN pkt[i].options
        /\ result[i] = "reply"
        /\ Len(calls[i]) = 4
        /\ calls[i][4].op = "CheckIn"
        /\ regLastSeen[pkt[i].chaddr] = 2

(***************************************************************************)
(* C9.  With a parameter request list the reply's selected options are the *)
(* requested codes that the assembled set holds, in the order requested,   *)
(* each with the assembled value; without one they are all the assembled   *)
(* options, each once.                                                     *)
(***************************************************************************)
AssembledCodes ==
    {OptionSubnetMask, OptionRouter, OptionDomainNameServer, OptionHostName,
     OptionClasslessRouteFormat}

C9_OptionSelection ==
    \A i \in Workers :
        result[i] = "reply"
            => LET assembled == dhcpOptions[i]
                   selected == SelectedOf(i)
                   Held(c) == c \in DOMAIN assembled
               IN /\ DOMAIN assembled \subseteq AssembledCodes
                  /\ selected = local[i].replyOptions
                  /\ \A k \in 1..Len(selected) :
                        /\ selected[k].Code \in DOMAIN assembled
                        /\ selected[k].Value = assembled[selected[k].Code]
                  /\ IF OptionParameterRequestList \in DOMAIN pkt[i].options
                     THEN Codes(selected)
                            = SelectSeq(pkt[i].options[OptionParameterRequestList], Held)
                     ELSE /\ Len(selected) = Cardinality(DOMAIN assembled)
                          /\ {selected[k].Code : k \in 1..Len(selected)} = DOMAIN assembled

\* router, subnet mask, an option the server does not hold, subnet mask
\* again: three options come back
C9_Witness ==
    \E i \in Workers :
        /\ result[i] = "reply"
        /\ OptionParameterRequestList \in DOMAIN pkt[i].options
        /\ Codes(SelectedOf(i)) = <<OptionRouter, OptionSubnetMask, OptionSubnetMask>>
        /\ OptionClientGUID \in DOMAIN pkt[i].options

(***************************************************************************)
(* C10.  A reply to a packet with option 97 ends with exactly three more   *)
(* options after the selected ones: 60 = "PXEClient", 97 = the incoming    *)
(* value without its first byte, 43 = the fillPXE payload; a reply to a    *)
(* packet without option 97 has none of them.                              *)
(***************************************************************************)
C10_PXEOptions ==
    \A i \in Workers :
        result[i] = "reply"
            => IF OptionClientGUID \in DOMAIN pkt[i].options
               THEN reply[i].options
                        = local[i].replyOptions
                            \o <<Option(60, PXEClient),
                                 Option(97, Tail(pkt[i].options[OptionClientGUID])),
                                 Option(43, fillPXE(h.serverIP, h.bootMessage))>>
               ELSE /\ reply[i].options = local[i].replyOptions
                    /\ \A k \in 1..Len(reply[i].options) :
                            reply[i].options[k].Code \notin {60, 97, 43}

\* a PXE client that asked for no option at all gets the three PXE options
C10_Witness ==
    \E i \in Workers :
        /\ result[i] = "reply"
        /\ OptionClientGUID \in DOMAIN pkt[i].options
        /\ OptionParameterRequestList \in DOMAIN pkt[i].options
        /\ pkt[i].options[OptionParameterRequestList] = << >>
        /\ Len(reply[i].options) = 3
        /\ reply[i].options[2].Value = <<171, 205>>

(***************************************************************************)
(* C11.  In the payload of fillPXE the length byte of the boot menu is      *)
(* 3 + len(bootMessage) and that of the menu prompt 1 + len(bootMessage),  *)
(* the number of value bytes that follow, for every boot message the       *)
(* handler is configured with: the length never wraps modulo 256.          *)
(***************************************************************************)
FillPXEApplied == probe.fn = "fillPXE" /\ probe.applied

\* the payload is a run of code, length, value entries that ends exactly in
\* the terminator 255
RECURSIVE WellFormed(_)
WellFormed(s) ==
    IF s = <<255>> THEN TRUE
    ELSE /\ Len(s) >= 2
         /\ Len(s) >= 2 + s[2]
         /\ WellFormed(SubSeq(s, 3 + s[2], Len(s)))

C11_LengthsFit ==
    FillPXEApplied =>
        LET n == Len(h.bootMessage)
        IN /\ probe.out[14] = 3 + n
           /\ probe.out[19 + n] = 1 + n
           /\ WellFormed(probe.out)

(***************************************************************************)
(* C12.  fillPXE returns exactly (6, 1, 3), (8, 7, 0x80, 0x00, 1, the four  *)
(* bytes of the server address), (9, 3 + len(msg), 0x80, 0x00, 9, msg),    *)
(* (10, 1 + len(msg), 2, msg), (255), for the configured boot message msg. *)
(***************************************************************************)
\* the four bytes of an IPv4 address in either form
Last4(ip) == SubSeq(ip, Len(ip) - 3, Len(ip))

C12_ExactBytes ==
    FillPXEApplied =>
        LET msg == h.bootMessage
        IN probe.out = <<6, 1, 3, 8, 7, 128, 0, 1>> \o Last4(h.serverIP)
                         \o <<9, 3 + Len(msg), 128, 0, 9>> \o msg
                         \o <<10, 1 + Len(msg), 2>> \o msg \o <<255>>

(***************************************************************************)
(* C13.  For the boot message "Blacksmith (v1.0)" the payload holds boot    *)
(* menu option 9 with the value 80 00 09 followed by the message bytes.    *)
(* As stated its length byte is 3 + 18 = 21; the message is 17 bytes long  *)
(* and the length byte is 3 + 17 = 20.                                     *)
(***************************************************************************)
\* "Blacksmith (v1.0)"
BlacksmithV10 ==
    <<66, 108, 97, 99, 107, 115, 109, 105, 116, 104, 32, 40, 118, 49, 46, 48, 41>>

\* option 9 follows the 3 bytes of option 6 and the 9 bytes of option 8
C13_AsStated ==
    FillPXEApplied /\ h.bootMessage = BlacksmithV10 =>
        /\ probe.out[13] = 9
        /\ probe.out[14] = 21
        /\ SubSeq(probe.out, 15, 14 + 21) = <<128, 0, 9>> \o BlacksmithV10

C13_BootMenu ==
    FillPXEApplied /\ h.bootMessage = BlacksmithV10 =>
        /\ probe.out[13] = 9
        /\ probe.out[14] = 20
        /\ SubSeq(probe.out, 15, 14 + 20) = <<128, 0, 9>> \o BlacksmithV10
        /\ probe.out[35] = 10

C13_Witness == FillPXEApplied /\ h.bootMessage = BlacksmithV10

(***************************************************************************)
(* C15.  For a list of n instance addresses dnsAddressesForDHCP returns    *)
(* 4 * n bytes, the i-th group of four being the i-th address; 10.0.0.1,   *)
(* 10.0.0.2 give 0A 00 00 01 0A 00 00 02.                                  *)
(***************************************************************************)
DnsApplied == probe.fn = "dnsAddressesForDHCP" /\ probe.applied

C15_DnsBytes ==
    DnsApplied =>
        /\ Len(probe.out) = 4 * Len(probe.arg)
        /\ \A i \in 1..Len(probe.arg) :
              SubSeq(probe.out, 4 * i - 3, 4 * i) = Last4(probe.arg[i])
        /\ probe.arg \in {<<ServerIP, OtherServerIP>>, <<ServerIP16, OtherServerIP>>}
              => probe.out = <<10, 0, 0, 1, 10, 0, 0, 2>>

C15_Witness ==
    /\ DnsApplied
    /\ probe.arg = <<ServerIP16, OtherServerIP>>
    /\ probe.out = <<10, 0, 0, 1, 10, 0, 0, 2>>

(***************************************************************************)
(* C14.  The hostname option (12) of a reply is the hardware address of    *)
(* the client in lowercase hexadecimal without the colons, then "." and    *)
(* the cluster name: "aabbccddeeff.mycluster" for aa:bb:cc:dd:ee:ff in     *)
(* "mycluster".  The hardware address can be read back from the hostname,  *)
(* so distinct addresses get distinct hostnames.                           *)
(***************************************************************************)
LowerHex == (48..57) \cup (97..102)

HexValue(c) == IF c \in 48..57 THEN c - 48 ELSE c - 87

IsHostname(v, mac, cluster) ==
    /\ Len(v) = 2 * Len(mac) + 1 + Len(cluster)
    /\ \A k \in 1..Len(mac) :
          /\ v[2 * k - 1] \in LowerHex
          /\ v[2 * k] \in LowerHex
          /\ 16 * HexValue(v[2 * k - 1]) + HexValue(v[2 * k]) = mac[k]
    /\ v[2 * Len(mac) + 1] = Dot
    /\ SubSeq(v, 2 * Len(mac) + 2, Len(v)) = cluster

C14_Hostname ==
    \A i \in Workers :
        result[i] = "reply"
            => /\ OptionHostName \in DOMAIN dhcpOptions[i]
               /\ IsHostname(dhcpOptions[i][OptionHostName], pkt[i].chaddr, ClusterNameValue)
               /\ \A k \in 1..Len(reply[i].options) :
                     reply[i].options[k].Code = OptionHostName
                        => /\ IsHostname(reply[i].options[k].Value, pkt[i].chaddr,
                                         ClusterNameValue)
                           /\ pkt[i].chaddr = MacA
                                => reply[i].options[k].Value = HostnameOf(MacA)

C14_Witness ==
    \E i \in Workers :
        /\ result[i] = "reply"
        /\ pkt[i].chaddr = MacA
        /\ \E k \in 1..Len(reply[i].options) :
              /\ reply[i].options[k].Code = OptionHostName
              /\ reply[i].options[k].Value = HostnameOf(MacA)

(***************************************************************************)
(* C16.  ServeDHCP never panics: every invocation ends by returning a      *)
(* reply or none, whatever the message type, the options (an empty option  *)
(* 97 included) and the registry outcomes; a REQUEST that recorded a       *)
(* check-in goes on to return an ACK.                                      *)
(***************************************************************************)
C16_NeverPanics ==
    \A i \in Workers :
        /\ pc[i] # "panic"
        /\ result[i] # "panic"
        /\ Finished(i) /\ pkt[i].msgType = Request /\ CheckIns(i) > 0
              => result[i] = "reply" /\ reply[i].mt = ACK

(***************************************************************************)
(* C17.  The random source is seeded once, at the start of StartDHCP and   *)
(* before any packet is handled: the call of rand.Seed precedes every      *)
(* call of randLeaseDuration made for a served packet.                     *)
(***************************************************************************)
C17_SeededBeforeDraw ==
    /\ start.seeds <= 1
    /\ handled > 0 => start.seeds = 1
    /\ \A i \in Workers : result[i] = "reply" => local[i].seeded

(***************************************************************************)
(* C18.  A DISCOVER or REQUEST for this server whose machine lookup fails, *)
(* whose network configuration is missing or does not parse, or whose      *)
(* instance list cannot be fetched returns none and records no check-in.   *)
(* The lookups are made in that order, none before the server-identifier   *)
(* check and all before the requested address of a REQUEST is validated.   *)
(***************************************************************************)
Ops(i) == [k \in 1..Len(calls[i]) |-> calls[i][k].op]

ForThisServer(i) ==
    Finished(i) /\ IsRequestLike(i) /\ SidAbsentOrMatches(pkt[i])

C18_LookupFailureDrops ==
    \A i \in Workers :
        /\ ForThisServer(i) /\ ~LookupsSucceeded(i)
              => /\ result[i] = "none"
                 /\ CheckIns(i) = 0
                 /\ Ops(i) = IF local[i].machine = Nil THEN <<"Machine">>
                             ELSE IF ~local[i].netConfOK THEN <<"Machine", "GetVariable">>
                             ELSE <<"Machine", "GetVariable", "Instances">>
        /\ ForThisServer(i) /\ regNetConf \in {NetConfMissing, NetConfMalformed}
              => result[i] = "none" /\ ~local[i].netConfOK
        /\ Finished(i) /\ IsRequestLike(i) /\ ~SidAbsentOrMatches(pkt[i])
              => Ops(i) = << >>
        /\ ForThisServer(i) /\ LookupsSucceeded(i)
              => SubSeq(Ops(i), 1, 3) = <<"Machine", "GetVariable", "Instances">>

C18_Witness ==
    \E i \in Workers :
        /\ ForThisServer(i)
        /\ pkt[i].msgType = Request
        /\ RequestedAddress(pkt[i]) = << >>
        /\ local[i].machine # Nil
        /\ regNetConf = NetConfMalformed
        /\ result[i] = "none"
        /\ Ops(i) = <<"Machine", "GetVariable">>

(***************************************************************************)
(* C19.  The requested address of a REQUEST is option 50 when present and  *)
(* the client-IP field only when it is absent.  With the lookups           *)
(* succeeding: option 50 other than the assignment is dropped even if the  *)
(* client-IP field is the assignment; no option 50 and the client-IP field *)
(* equal to the assignment is ACKed; a requested address that is not four  *)
(* bytes or is 0.0.0.0 is dropped without a check-in.                      *)
(***************************************************************************)
C19_RequestedAddress ==
    \A i \in Workers :
        ForThisServer(i) /\ pkt[i].msgType = Request /\ LookupsSucceeded(i)
            => LET p == pkt[i]
                   has50 == OptionRequestedIPAddress \in DOMAIN p.options
               IN /\ has50 /\ p.options[OptionRequestedIPAddress] # Assigned(i)
                        => result[i] = "none"
                  /\ ~has50 /\ p.ciaddr = Assigned(i)
                        => result[i] = "reply" /\ reply[i].mt = ACK
                  /\ (IF has50 THEN Len(p.options[OptionRequestedIPAddress]) # 4
                                      \/ p.options[OptionRequestedIPAddress] = IPv4zero
                       ELSE p.ciaddr = IPv4zero)
                        => result[i] = "none" /\ CheckIns(i) = 0

(***************************************************************************)
(* C20.  The assembled option set always holds subnet mask (1), DNS        *)
(* servers (6) and hostname (12); router (3) exactly when the network      *)
(* configuration has a router; classless static routes (121) exactly when  *)
(* the route list is not empty, its value the encodings of the entries     *)
(* concatenated in configured order.                                       *)
(***************************************************************************)
\* the encodings of the first k entries, one after the other
RECURSIVE FirstEncoded(_, _)
FirstEncoded(parts, k) ==
    IF k = 0 THEN << >> ELSE FirstEncoded(parts, k - 1) \o toBytes(parts[k])

C20_BaseOptions ==
    \A i \in Workers :
        local[i].instancesOK
            => LET assembled == dhcpOptions[i]
                   netConf == regNetConf.conf
                   routes == netConf.ClasslessRouteOption
               IN /\ {OptionSubnetMask, OptionDomainNameServer, OptionHostName}
                        \subseteq DOMAIN assembled
                  /\ DOMAIN assembled \subseteq AssembledCodes
                  /\ OptionRouter \in DOMAIN assembled <=> netConf.Router # Nil
                  /\ OptionRouter \in DOMAIN assembled
                        => assembled[OptionRouter] = netConf.Router
                  /\ OptionClasslessRouteFormat \in DOMAIN assembled <=> Len(routes) > 0
                  /\ OptionClasslessRouteFormat \in DOMAIN assembled
                        => assembled[OptionClasslessRouteFormat]
                             = FirstEncoded(routes, Len(routes))
                  /\ routes = <<RouteB, RouteA>>
                        => assembled[OptionClasslessRouteFormat]
                             = toBytes(RouteB) \o toBytes(RouteA)

C20_Witness ==
    \E i \in Workers :
        /\ local[i].instancesOK
        /\ regNetConf.conf = ConfRoutes
        /\ OptionRouter \notin DOMAIN dhcpOptions[i]
        /\ dhcpOptions[i][OptionClasslessRouteFormat]
             = toBytes(RouteB) \o toBytes(RouteA)

====
